---- MODULE Spec2Model ----
(***************************************************************************)
(* A model of the IPMI message codec (Message.DecodeFromBytes,             *)
(* Message.SerializeTo, checksum), of the next-layer dispatch              *)
(* (Message.NextLayerType, Operation.NextLayerType), of the construction   *)
(* of the confidentiality layer (algorithmCipher) and of the v2.0 session  *)
(* establishment.  Go offsets are 0-based: At and Slice translate them to  *)
(* TLA+ sequences.  Bytes are 0..255 and every uint8 operation is taken    *)
(* modulo 256.                                                             *)
(***************************************************************************)
EXTENDS Integers, Sequences, FiniteSets, TLC

VARIABLES
    pc,         \* position of the codec driver: idle, serialized, decoded, flipped, dispatched
    msg0,       \* the Message handed to SerializeTo, as it was before the call
    msg,        \* the same Message after SerializeTo
    opts,       \* SerializeOptions.ComputeChecksums of the last SerializeTo
    payload,    \* the serialize buffer before SerializeTo (the next layer's bytes)
    buf,        \* the serialize buffer after SerializeTo
    data,       \* the input of the last DecodeFromBytes
    before,     \* the receiver Message of the last DecodeFromBytes, before the call
    dec,        \* the receiver Message after the call
    err,        \* outcome of the last DecodeFromBytes
    truncated,  \* whether df.SetTruncated() was called
    flipAt,     \* 0-based offset of the corrupted byte, -1 when the input is not corrupted
    nextLayer,  \* result of the last Message.NextLayerType
    ckIn,       \* input of the last checksum call
    ckOut,      \* its result
    ckPc,       \* idle, done
    cpc,        \* position of the cipher construction: idle, built
    alg,        \* the negotiated confidentiality algorithm
    gen,        \* the session's AdditionalKeyMaterialGenerator
    cipher,     \* the layer algorithmCipher returned, Nil for none
    cerr,       \* the error algorithmCipher returned
    kCalls,     \* the indices g.K was called with, in order
    sstate,     \* the state of the v2.0 session
    establishErr, \* the error session establishment ended with, "nil" for none
    serr,       \* the error of the last operation on the session
    validated,  \* the handshake messages received and validated so far
    localRand,  \* the console's random number, sent in RAKP Message 1
    remoteRand, \* the BMC's random number, received in RAKP Message 2
    wrongTag,   \* whether a RAKP message with a wrong integrity value was received
    outSeq,     \* the outbound sequence number
    sent        \* the number of application messages accepted

codecVars == <<pc, msg0, msg, opts, payload, buf, data, before, dec, err, truncated, flipAt, nextLayer>>
ckVars == <<ckIn, ckOut, ckPc>>
cipherVars == <<cpc, alg, gen, cipher, cerr, kCalls>>
sessVars == <<sstate, establishErr, serr, validated, localRand, remoteRand, wrongTag, outSeq, sent>>
vars == <<codecVars, ckVars, cipherVars, sessVars>>

\* ------------------------------------------------------------------ bytes

Byte == 0..255

RECURSIVE Pow2(_)
Pow2(k) == IF k = 0 THEN 1 ELSE 2 * Pow2(k - 1)

\* a | b on uint8
RECURSIVE BitOrFrom(_, _, _)
BitOrFrom(a, b, k) ==
    IF k = 8 THEN 0
    ELSE (IF (a \div Pow2(k)) % 2 = 1 \/ (b \div Pow2(k)) % 2 = 1 THEN Pow2(k) ELSE 0)
         + BitOrFrom(a, b, k + 1)

BitOr(a, b) == BitOrFrom(a % 256, b % 256, 0)

\* b with bit k inverted
FlipBit(b, k) == IF (b \div Pow2(k)) % 2 = 1 THEN b - Pow2(k) ELSE b + Pow2(k)

\* Go's data[i] and data[lo:hi]
At(s, i) == s[i + 1]

Slice(s, lo, hi) == SubSeq(s, lo + 1, hi)

RECURSIVE SumBytes(_)
SumBytes(s) == IF s = <<>> THEN 0 ELSE s[1] + SumBytes(Tail(s))

\* ---------------------------------------------------------------- checksum

\* the loop of checksum: c += b on uint8
RECURSIVE checksumLoop(_, _)
checksumLoop(s, c) == IF s = <<>> THEN c ELSE checksumLoop(Tail(s), (c + s[1]) % 256)

\* a checksum that forgets the negation
checksumNoNegate(s) == checksumLoop(s, 0)

\* return -c on uint8
checksum(s) == (256 - checksumLoop(s, 0)) % 256

\* ------------------------------------------------------- network functions

NetworkFunctionChassisRsp == 1
NetworkFunctionSensorRsp == 5
NetworkFunctionAppReq == 6
NetworkFunctionAppRsp == 7
NetworkFunctionStorageRsp == 11
NetworkFunctionGroupReq == 44
NetworkFunctionGroupRsp == 45
NetworkFunctionOEMReq == 46
NetworkFunctionOEMRsp == 47

IsRequest(fn) == fn % 2 = 0

IsGroup(fn) == fn \in {NetworkFunctionGroupReq, NetworkFunctionGroupRsp}

IsOEM(fn) == fn \in {NetworkFunctionOEMReq, NetworkFunctionOEMRsp}

CompletionCodeNormal == 0

\* ----------------------------------------------------------------- Message

ZeroMessage ==
    [RemoteAddress |-> 0, Function |-> 0, RemoteLUN |-> 0, Checksum1 |-> 0,
     LocalAddress |-> 0, Sequence |-> 0, LocalLUN |-> 0, Command |-> 0,
     CompletionCode |-> 0, Body |-> 0, Enterprise |-> 0, Checksum2 |-> 0,
     Contents |-> <<>>, Payload |-> <<>>]

\* a decoder that lets 6-byte inputs through
MinMessageLenSix == 7 - 1

MinMessageLen == 7

\* the outcome of a decode: the receiver, the error ("nil" for none, "panic" for
\* a Go run-time fault) and whether df.SetTruncated() was called
Outcome(m, e, t) == [m |-> m, err |-> e, truncated |-> t]

\* decodeSpecialNetFns: [m, consumed, err, truncated]
decodeSpecialNetFns(m, d) ==
    LET m1 == [m EXCEPT !.Body = 0, !.Enterprise = 0] IN
    IF IsGroup(m1.Function) THEN
        IF Len(d) < 1
        THEN [m |-> m1, consumed |-> 0, err |-> "data too short for body code", truncated |-> TRUE]
        ELSE [m |-> [m1 EXCEPT !.Body = At(d, 0)], consumed |-> 1, err |-> "nil", truncated |-> FALSE]
    ELSE IF IsOEM(m1.Function) THEN
        IF Len(d) < 3
        THEN [m |-> m1, consumed |-> 0, err |-> "data too short for OEM EN", truncated |-> TRUE]
        ELSE [m |-> [m1 EXCEPT !.Enterprise = At(d, 0) + At(d, 1) * 256 + At(d, 2) * 65536],
              consumed |-> 3, err |-> "nil", truncated |-> FALSE]
    ELSE [m |-> m1, consumed |-> 0, err |-> "nil", truncated |-> FALSE]

\* decodeDataHeader: data[start:len(data)-1] faults when start > len(data)-1
decodeDataHeader(m, d, start) ==
    IF start > Len(d) - 1 THEN Outcome(m, "panic", FALSE)
    ELSE LET r == decodeSpecialNetFns(m, Slice(d, start, Len(d) - 1)) IN
         IF r.err # "nil" THEN Outcome(r.m, r.err, r.truncated)
         ELSE Outcome([r.m EXCEPT !.Contents = Slice(d, 0, start + r.consumed),
                                  !.Payload = Slice(d, start + r.consumed, Len(d) - 1)],
                      "nil", FALSE)

decodeRequest(m, d) == decodeDataHeader([m EXCEPT !.CompletionCode = 0], d, 6)

\* a response decoded as if it had no completion code byte
decodeResponseFrom6(m, d) ==
    IF 6 >= Len(d) THEN Outcome(m, "panic", FALSE)
    ELSE decodeDataHeader([m EXCEPT !.CompletionCode = At(d, 6)], d, 6)

\* data[6] faults when len(data) <= 6
decodeResponse(m, d) ==
    IF 6 >= Len(d) THEN Outcome(m, "panic", FALSE)
    ELSE decodeDataHeader([m EXCEPT !.CompletionCode = At(d, 6)], d, 7)

\* a decoder that reads the command together with the first three bytes
parseRemoteAndCommand(m, d) ==
    [m EXCEPT !.RemoteAddress = At(d, 0),
              !.Function = At(d, 1) \div 4,
              !.RemoteLUN = At(d, 1) % 4,
              !.Checksum1 = At(d, 2),
              !.Command = At(d, 5)]

\* the fields read before Checksum1 is verified
parseRemote(m, d) ==
    [m EXCEPT !.RemoteAddress = At(d, 0),
              !.Function = At(d, 1) \div 4,
              !.RemoteLUN = At(d, 1) % 4,
              !.Checksum1 = At(d, 2)]

\* the fields read between the two verifications
parseLocal(m, d) ==
    [m EXCEPT !.LocalAddress = At(d, 3),
              !.Sequence = At(d, 4) \div 4,
              !.LocalLUN = At(d, 4) % 4,
              !.Command = At(d, 5),
              !.Checksum2 = At(d, Len(d) - 1)]

\* data[:2]
checksum1Span(d) == Slice(d, 0, 2)

\* a span that starts one byte late
checksum2SpanFrom4(d) == Slice(d, 4, Len(d) - 1)

\* data[3 : len(data)-1]
checksum2Span(d) == Slice(d, 3, Len(d) - 1)

DecodeFromBytes(m, d) ==
    IF Len(d) < MinMessageLen THEN Outcome(m, "must be at least 7 bytes", TRUE)
    ELSE
    LET m1 == parseRemote(m, d) IN
    IF m1.Checksum1 # checksum(checksum1Span(d)) THEN Outcome(m1, "invalid checksum1", FALSE)
    ELSE
    LET m2 == parseLocal(m1, d) IN
    IF m2.Checksum2 # checksum(checksum2Span(d)) THEN Outcome(m2, "invalid checksum2", FALSE)
    ELSE IF IsRequest(m2.Function) THEN decodeRequest(m2, d)
    ELSE decodeResponse(m2, d)

\* --------------------------------------------------------------- serialize

\* a length that forgets the completion code of a response
serializeLengthNoCompletionCode(m) ==
    6 + (IF IsGroup(m.Function) THEN 1 ELSE IF IsOEM(m.Function) THEN 3 ELSE 0)

serializeLength(m) ==
    6 + (IF ~IsRequest(m.Function) THEN 1 ELSE 0)
      + (IF IsGroup(m.Function) THEN 1 ELSE IF IsOEM(m.Function) THEN 3 ELSE 0)

\* header[off] = v
Put(h, off, v) == [h EXCEPT ![off + 1] = v % 256]

\* the completion code and the body code or enterprise number, from offset 6
PutDataHeader(h, m) ==
    LET h1 == IF ~IsRequest(m.Function) THEN Put(h, 6, m.CompletionCode) ELSE h
        offset == IF ~IsRequest(m.Function) THEN 7 ELSE 6
    IN
    IF IsGroup(m.Function) THEN Put(h1, offset, m.Body)
    ELSE IF IsOEM(m.Function)
    THEN Put(Put(Put(h1, offset, m.Enterprise), offset + 1, m.Enterprise \div 256),
             offset + 2, m.Enterprise \div 65536)
    ELSE h1

\* SerializeTo(b, opts): [m, b], the Message and the buffer after the call
SerializeTo(m, b, computeChecksums) ==
    LET h0 == [i \in 1..serializeLength(m) |-> 0]
        h1 == Put(Put(h0, 0, m.RemoteAddress), 1, BitOr(m.Function * 4, m.RemoteLUN))
        c1 == IF computeChecksums THEN checksum(Slice(h1, 0, 2)) ELSE m.Checksum1
        h2 == Put(h1, 2, c1)
        h3 == Put(Put(Put(h2, 3, m.LocalAddress), 4, BitOr(m.Sequence * 4, m.LocalLUN)),
                  5, m.Command)
        h4 == PutDataHeader(h3, m)
        bytes == h4 \o b
        c2 == IF computeChecksums THEN checksum(Slice(bytes, 3, Len(bytes))) ELSE m.Checksum2
    IN [m |-> [m EXCEPT !.Checksum1 = c1, !.Checksum2 = c2], b |-> bytes \o <<c2>>]

\* ---------------------------------------------------------------- dispatch

Operation(fn, body, enterprise, cmd) ==
    [Function |-> fn, Body |-> body, Enterprise |-> enterprise, Command |-> cmd]

OperationGetChassisStatusRsp == Operation(NetworkFunctionChassisRsp, 0, 0, 1)
OperationGetDeviceIDRsp == Operation(NetworkFunctionAppRsp, 0, 0, 1)
OperationGetSystemGUIDRsp == Operation(NetworkFunctionAppRsp, 0, 0, 55)
OperationGetChannelAuthenticationCapabilitiesRsp == Operation(NetworkFunctionAppRsp, 0, 0, 56)
OperationGetSDRRepositoryInfoRsp == Operation(NetworkFunctionStorageRsp, 0, 0, 32)
OperationGetSDRRsp == Operation(NetworkFunctionStorageRsp, 0, 0, 35)
OperationGetSensorReadingRsp == Operation(NetworkFunctionSensorRsp, 0, 0, 45)
OperationGetSessionInfoRsp == Operation(NetworkFunctionAppRsp, 0, 0, 61)

\* the map operationLayerTypes, as its set of key/value pairs
operationLayerTypes ==
    { <<OperationGetDeviceIDRsp, "LayerTypeGetDeviceIDRsp">>,
      <<OperationGetChassisStatusRsp, "LayerTypeGetChassisStatusRsp">>,
      <<OperationGetSystemGUIDRsp, "LayerTypeGetSystemGUIDRsp">>,
      <<OperationGetChannelAuthenticationCapabilitiesRsp,
        "LayerTypeGetChannelAuthenticationCapabilitiesRsp">>,
      <<OperationGetSDRRepositoryInfoRsp, "LayerTypeGetSDRRepositoryInfoRsp">>,
      <<OperationGetSDRRsp, "LayerTypeGetSDRRsp">>,
      <<OperationGetSensorReadingRsp, "LayerTypeGetSensorReadingRsp">>,
      <<OperationGetSessionInfoRsp, "LayerTypeGetSessionInfoRsp">> }

LayerTypePayload == "LayerTypePayload"

InTable(o) == \E e \in operationLayerTypes : e[1] = o

OperationNextLayerType(o) ==
    IF InTable(o) THEN (CHOOSE e \in operationLayerTypes : e[1] = o)[2]
    ELSE LayerTypePayload

\* the embedded Operation of a Message
OperationOf(m) == Operation(m.Function, m.Body, m.Enterprise, m.Command)

\* a dispatch that ignores the completion code
MessageNextLayerTypeIgnoringCode(m) == OperationNextLayerType(OperationOf(m))

MessageNextLayerType(m) ==
    IF m.CompletionCode # CompletionCodeNormal THEN LayerTypePayload
    ELSE OperationNextLayerType(OperationOf(m))

\* --------------------------------------------------------- confidentiality

ConfidentialityAlgorithmNone == 0
ConfidentialityAlgorithmAESCBC128 == 1

Nil == [kind |-> "nil"]

\* g.K(n): the key material the generator g derives for index n; the indices
\* give different material
K(g, n) == [i \in 1..g.len |-> (g.seed * 16 + 37 * n + i) % 256]

KeySize == 16
KeyIndex == 2

\* key := [16]byte{}; copy(key[:], src)
CopyKey(source) == [i \in 1..KeySize |-> IF i <= Len(source) THEN source[i] ELSE 0]

NewAES128CBC(key) == [layer |-> [kind |-> "AES128CBC", key |-> key], err |-> "nil"]

\* a construction that takes an unknown algorithm for no encryption
algorithmCipherLenient(a, g) ==
    IF a = ConfidentialityAlgorithmAESCBC128
    THEN NewAES128CBC(CopyKey(K(g, KeyIndex))) @@ [calls |-> <<KeyIndex>>]
    ELSE [layer |-> Nil, err |-> "nil", calls |-> <<>>]

\* algorithmCipher(a, g): [layer, err, calls]
algorithmCipher(a, g) ==
    IF a = ConfidentialityAlgorithmNone
    THEN [layer |-> Nil, err |-> "nil", calls |-> <<>>]
    ELSE IF a = ConfidentialityAlgorithmAESCBC128
    THEN NewAES128CBC(CopyKey(K(g, KeyIndex))) @@ [calls |-> <<KeyIndex>>]
    ELSE [layer |-> Nil, err |-> "unsupported confidentiality algorithm", calls |-> <<>>]

\* ------------------------------------------------------------------ inputs

MaxPayloadLen == 2
MaxRestLen == 4
MaxCkLen == 3

\* all sequences over S of length at most n
RECURSIVE SeqsUpTo(_, _)
SeqsUpTo(S, n) ==
    IF n = 0 THEN {<<>>}
    ELSE LET shorter == SeqsUpTo(S, n - 1) IN
         shorter \cup {Append(q, x) : q \in {r \in shorter : Len(r) = n - 1}, x \in S}

Functions ==
    {NetworkFunctionAppReq, NetworkFunctionAppRsp, NetworkFunctionGroupReq,
     NetworkFunctionGroupRsp, NetworkFunctionOEMReq, NetworkFunctionOEMRsp}

Header(ra, rlun, la, llun, seq, cmd) ==
    [RemoteAddress |-> ra, RemoteLUN |-> rlun, LocalAddress |-> la, LocalLUN |-> llun,
     Sequence |-> seq, Command |-> cmd]

\* addressing of the messages tried; the last one has a LUN and a sequence
\* number that do not fit their 2 and 6 bits
ValidHeaders == {Header(32, 0, 129, 0, 5, 56), Header(255, 3, 255, 3, 63, 255), Header(0, 0, 0, 0, 0, 1)}

Headers == ValidHeaders \cup {Header(32, 5, 129, 2, 70, 56)}

CompletionCodes == {CompletionCodeNormal, 193}

\* <<Body, Enterprise>>; the last enterprise number does not fit 24 bits
Extensions == {<<0, 0>>, <<220, 1193046>>, <<1, 16777221>>}

\* <<Checksum1, Checksum2>> as the caller left them
SuppliedChecksums == {<<0, 0>>, <<90, 165>>}

PayloadBytes == {1, 171}

Payloads == SeqsUpTo(PayloadBytes, MaxPayloadLen)

Messages ==
    { [ZeroMessage EXCEPT !.RemoteAddress = h.RemoteAddress, !.RemoteLUN = h.RemoteLUN,
                          !.LocalAddress = h.LocalAddress, !.LocalLUN = h.LocalLUN,
                          !.Sequence = h.Sequence, !.Command = h.Command,
                          !.Function = fn, !.CompletionCode = cc,
                          !.Body = x[1], !.Enterprise = x[2],
                          !.Checksum1 = ck[1], !.Checksum2 = ck[2]] :
        h \in Headers, fn \in Functions, cc \in CompletionCodes, x \in Extensions,
        ck \in SuppliedChecksums }

\* a Message that has been decoded into before
StaleMessage ==
    [RemoteAddress |-> 119, Function |-> 9, RemoteLUN |-> 1, Checksum1 |-> 17,
     LocalAddress |-> 120, Sequence |-> 33, LocalLUN |-> 2, Command |-> 121,
     CompletionCode |-> 201, Body |-> 9, Enterprise |-> 7, Checksum2 |-> 18,
     Contents |-> <<119, 37, 17, 120, 134, 121>>, Payload |-> <<9>>]

Receivers == {ZeroMessage, StaleMessage}

\* a datagram with both checksums right: the six header bytes, rest, Checksum2
Frame(h, fn, rest) ==
    LET b0 == h.RemoteAddress
        b1 == fn * 4 + h.RemoteLUN
        tail == <<h.LocalAddress, h.Sequence * 4 + h.LocalLUN, h.Command>> \o rest
    IN <<b0, b1, (512 - b0 - b1) % 256>> \o tail \o <<(256 - (SumBytes(tail) % 256)) % 256>>

RawHeaders == {Header(32, 0, 129, 0, 5, 56), Header(255, 3, 255, 3, 63, 255)}

Frames == {Frame(h, fn, rest) : h \in RawHeaders, fn \in Functions,
                                rest \in SeqsUpTo(PayloadBytes, MaxRestLen)}

\* datagrams cut short of the 7 bytes
ShortInputs ==
    {SubSeq(Frame(h, fn, <<>>), 1, n) : h \in RawHeaders, fn \in {NetworkFunctionAppReq, NetworkFunctionGroupRsp}, n \in 0..6}

RawInputs == Frames \cup ShortInputs

MaxAlgorithm == 5
MaxSeed == 7

\* the identifiers tried: the defined ones, the reserved ones and two OEM ones
Algorithms == 0..MaxAlgorithm \cup {48, 63}

\* generators whose material is as long as an MD5, SHA1 or SHA256 digest
Generators == {[seed |-> sd, len |-> n] : sd \in 0..MaxSeed, n \in {16, 20, 32}}

MaxRand == 3
MaxSent == 6

Rands == 0..MaxRand

\* the integrity values a RAKP message may carry
Tags == 0..7

CkBytes == {0, 1, 127, 128, 255}

CkInputs == SeqsUpTo(CkBytes, MaxCkLen)

\* ----------------------------------------------------------------- actions

CodecInit ==
    /\ pc = "idle"
    /\ msg0 = ZeroMessage
    /\ msg = ZeroMessage
    /\ opts = FALSE
    /\ payload = <<>>
    /\ buf = <<>>
    /\ data = <<>>
    /\ before = ZeroMessage
    /\ dec = ZeroMessage
    /\ err = "nil"
    /\ truncated = FALSE
    /\ flipAt = -1
    /\ nextLayer = "none"

CkIdle ==
    /\ ckIn = <<>>
    /\ ckOut = 0
    /\ ckPc = "idle"

CipherIdle ==
    /\ cpc = "idle"
    /\ alg = 0
    /\ gen = [seed |-> 0, len |-> 16]
    /\ cipher = Nil
    /\ cerr = "nil"
    /\ kCalls = <<>>

SessionInit ==
    /\ sstate = "Unestablished"
    /\ establishErr = "nil"
    /\ serr = "nil"
    /\ validated = {}
    /\ localRand = 0
    /\ remoteRand = 0
    /\ wrongTag = FALSE
    /\ outSeq = 0
    /\ sent = 0

Init == CodecInit /\ CkIdle /\ CipherIdle /\ SessionInit

\* the caller serializes a Message in front of the payload already in the buffer
Serialize(m, b, o) ==
    /\ pc = "idle"
    /\ LET r == SerializeTo(m, b, o) IN
        /\ msg0' = m
        /\ msg' = r.m
        /\ buf' = r.b
    /\ opts' = o
    /\ payload' = b
    /\ pc' = "serialized"
    /\ UNCHANGED <<data, before, dec, err, truncated, flipAt, nextLayer>>

\* DecodeFromBytes(d, df) on receiver m
Decode(m, d, at) ==
    LET r == DecodeFromBytes(m, d) IN
    /\ data' = d
    /\ before' = m
    /\ dec' = r.m
    /\ err' = r.err
    /\ truncated' = r.truncated
    /\ flipAt' = at

\* the serialized bytes are decoded back
DecodeSerialized(m) ==
    /\ pc = "serialized"
    /\ Decode(m, buf, -1)
    /\ pc' = "decoded"
    /\ UNCHANGED <<msg0, msg, opts, payload, buf, nextLayer>>

\* a datagram from the network is decoded
Receive(m, d) ==
    /\ pc = "idle"
    /\ Decode(m, d, -1)
    /\ pc' = "decoded"
    /\ UNCHANGED <<msg0, msg, opts, payload, buf, nextLayer>>

\* an accepted input arrives again with bit k of byte i inverted, and is decoded
\* into the same Message
DecodeFlipped(i, k) ==
    /\ pc = "decoded"
    /\ err = "nil"
    /\ i \in 0..(Len(data) - 1)
    /\ Decode(dec, [data EXCEPT ![i + 1] = FlipBit(data[i + 1], k)], i)
    /\ pc' = "flipped"
    /\ UNCHANGED <<msg0, msg, opts, payload, buf, nextLayer>>

\* the decoder asks the decoded Message for its next layer
NextLayerType ==
    /\ pc = "decoded"
    /\ err = "nil"
    /\ nextLayer' = MessageNextLayerType(dec)
    /\ pc' = "dispatched"
    /\ UNCHANGED <<msg0, msg, opts, payload, buf, data, before, dec, err, truncated, flipAt>>

\* the buffer is cleared and the driver starts over
Clear ==
    /\ pc # "idle"
    /\ pc' = "idle"
    /\ msg0' = ZeroMessage
    /\ msg' = ZeroMessage
    /\ opts' = FALSE
    /\ payload' = <<>>
    /\ buf' = <<>>
    /\ data' = <<>>
    /\ before' = ZeroMessage
    /\ dec' = ZeroMessage
    /\ err' = "nil"
    /\ truncated' = FALSE
    /\ flipAt' = -1
    /\ nextLayer' = "none"

\* the guards stand before the choice of the inputs, as in the actions
Next ==
    \/ pc = "idle" /\ \E m \in Messages, b \in Payloads, o \in BOOLEAN :
           Serialize(m, b, o) /\ UNCHANGED <<ckVars, cipherVars, sessVars>>
    \/ pc = "serialized" /\ \E m \in Receivers : DecodeSerialized(m) /\ UNCHANGED <<ckVars, cipherVars, sessVars>>
    \/ pc = "idle" /\ \E m \in Receivers, d \in RawInputs : Receive(m, d) /\ UNCHANGED <<ckVars, cipherVars, sessVars>>
    \/ pc = "decoded" /\ err = "nil" /\ \E i \in 0..(Len(data) - 1), k \in 0..7 :
           DecodeFlipped(i, k) /\ UNCHANGED <<ckVars, cipherVars, sessVars>>
    \/ NextLayerType /\ UNCHANGED <<ckVars, cipherVars, sessVars>>
    \/ Clear /\ UNCHANGED <<ckVars, cipherVars, sessVars>>

Spec == Init /\ [][Next]_vars

\* checksum applied to a byte sequence
CkInit ==
    /\ CodecInit
    /\ CipherIdle
    /\ SessionInit
    /\ ckIn \in CkInputs
    /\ ckOut = 0
    /\ ckPc = "idle"

Checksum ==
    /\ ckPc = "idle"
    /\ ckOut' = checksum(ckIn)
    /\ ckPc' = "done"
    /\ UNCHANGED ckIn

CkNextInput(s) ==
    /\ ckPc = "done"
    /\ ckIn' = s
    /\ ckOut' = 0
    /\ ckPc' = "idle"

CkNext ==
    \/ Checksum /\ UNCHANGED <<codecVars, cipherVars, sessVars>>
    \/ \E s \in CkInputs : CkNextInput(s) /\ UNCHANGED <<codecVars, cipherVars, sessVars>>

SpecChecksum == CkInit /\ [][CkNext]_vars

\* the session builds its confidentiality layer from the negotiated algorithm
AlgorithmCipher(a, g) ==
    /\ cpc = "idle"
    /\ LET r == algorithmCipher(a, g) IN
        /\ cipher' = r.layer
        /\ cerr' = r.err
        /\ kCalls' = r.calls
    /\ alg' = a
    /\ gen' = g
    /\ cpc' = "built"

\* the session is dropped
CipherDrop ==
    /\ cpc = "built"
    /\ cpc' = "idle"
    /\ alg' = 0
    /\ gen' = [seed |-> 0, len |-> 16]
    /\ cipher' = Nil
    /\ cerr' = "nil"
    /\ kCalls' = <<>>

CipherNext ==
    \/ \E a \in Algorithms, g \in Generators : AlgorithmCipher(a, g) /\ UNCHANGED <<codecVars, ckVars, sessVars>>
    \/ CipherDrop /\ UNCHANGED <<codecVars, ckVars, sessVars>>

SpecCipher == Init /\ [][CipherNext]_vars

\* ----------------------------------------------------------------- session

SessionStates ==
    <<"Unestablished", "OpeningSession", "AwaitingRAKP2", "AwaitingRAKP4", "Active", "Closed">>

\* the place of a state in the order of the states
Rank(st) == CHOOSE i \in 1..Len(SessionStates) : SessionStates[i] = st

\* the integrity check value of RAKP Message 2 and of RAKP Message 4: a keyed
\* hash over both random numbers, here 3 bits wide
Rakp2Tag(lr, rr) == (5 * lr + 3 * rr + 1) % 8

Rakp4Tag(lr, rr) == (3 * lr + 5 * rr + 2) % 8

\* the caller requests a session: the Open Session Request is sent
OpenSession ==
    /\ sstate = "Unestablished"
    /\ sstate' = "OpeningSession"
    /\ UNCHANGED <<establishErr, serr, validated, localRand, remoteRand, wrongTag, outSeq, sent>>

\* the Open Session Response: a status and whether the algorithms are supported
OpenSessionResponse(ok, supported, lr) ==
    /\ sstate = "OpeningSession"
    /\ IF ok /\ supported
       THEN /\ sstate' = "AwaitingRAKP2"
            /\ validated' = validated \cup {"OpenSessionResponse"}
            /\ localRand' = lr
            /\ UNCHANGED <<establishErr, serr>>
       ELSE /\ sstate' = "Closed"
            /\ establishErr' = "NegotiationError"
            /\ serr' = "NegotiationError"
            /\ UNCHANGED <<validated, localRand>>
    /\ UNCHANGED <<remoteRand, wrongTag, outSeq, sent>>

\* an establishment that does not compare the integrity value of Message 4
RAKPMessage4Unchecked(tag) ==
    /\ sstate = "AwaitingRAKP4"
    /\ sstate' = "Active"
    /\ validated' = IF tag = Rakp4Tag(localRand, remoteRand) THEN validated \cup {"RAKP4"} ELSE validated
    /\ wrongTag' = (wrongTag \/ tag # Rakp4Tag(localRand, remoteRand))
    /\ outSeq' = 1
    /\ UNCHANGED <<establishErr, serr, localRand, remoteRand, sent>>

\* RAKP Message 2: the BMC's random number and its integrity value
RAKPMessage2(rr, tag) ==
    /\ sstate = "AwaitingRAKP2"
    /\ remoteRand' = rr
    /\ IF tag = Rakp2Tag(localRand, rr)
       THEN /\ sstate' = "AwaitingRAKP4"
            /\ validated' = validated \cup {"RAKP2"}
            /\ UNCHANGED <<establishErr, serr, wrongTag>>
       ELSE /\ sstate' = "Closed"
            /\ establishErr' = "AuthenticationError"
            /\ serr' = "AuthenticationError"
            /\ wrongTag' = TRUE
            /\ UNCHANGED validated
    /\ UNCHANGED <<localRand, outSeq, sent>>

\* RAKP Message 4: its integrity value
RAKPMessage4(tag) ==
    /\ sstate = "AwaitingRAKP4"
    /\ IF tag = Rakp4Tag(localRand, remoteRand)
       THEN /\ sstate' = "Active"
            /\ validated' = validated \cup {"RAKP4"}
            /\ outSeq' = 1
            /\ UNCHANGED <<establishErr, serr, wrongTag>>
       ELSE /\ sstate' = "Closed"
            /\ establishErr' = "AuthenticationError"
            /\ serr' = "AuthenticationError"
            /\ wrongTag' = TRUE
            /\ UNCHANGED <<validated, outSeq>>
    /\ UNCHANGED <<localRand, remoteRand, sent>>

\* an application message: wrapped and sent when Active, refused otherwise
SendCommand ==
    /\ sent < MaxSent
    /\ IF sstate = "Active"
       THEN /\ sent' = sent + 1
            /\ outSeq' = outSeq + 1
            /\ serr' = "nil"
       ELSE /\ serr' = "SessionClosedError"
            /\ UNCHANGED <<sent, outSeq>>
    /\ UNCHANGED <<sstate, establishErr, validated, localRand, remoteRand, wrongTag>>

\* Close Session succeeds
CloseSession ==
    /\ sstate = "Active"
    /\ sstate' = "Closed"
    /\ UNCHANGED <<establishErr, serr, validated, localRand, remoteRand, wrongTag, outSeq, sent>>

SessionNext ==
    \/ OpenSession /\ UNCHANGED <<codecVars, ckVars, cipherVars>>
    \/ \E ok \in BOOLEAN, supported \in BOOLEAN, lr \in Rands :
           OpenSessionResponse(ok, supported, lr) /\ UNCHANGED <<codecVars, ckVars, cipherVars>>
    \/ \E rr \in Rands, tag \in Tags : RAKPMessage2(rr, tag) /\ UNCHANGED <<codecVars, ckVars, cipherVars>>
    \/ \E tag \in Tags : RAKPMessage4(tag) /\ UNCHANGED <<codecVars, ckVars, cipherVars>>
    \/ SendCommand /\ UNCHANGED <<codecVars, ckVars, cipherVars>>
    \/ CloseSession /\ UNCHANGED <<codecVars, ckVars, cipherVars>>

SpecSession == Init /\ [][SessionNext]_vars

\* ------------------------------------------------------------------ claims

\* the last decode took the bytes SerializeTo wrote
FromSerialize == pc \in {"decoded", "dispatched"} /\ buf # <<>>

\* the field ranges of the wire format
InRange(m) ==
    /\ m.Sequence \in 0..63
    /\ m.RemoteLUN \in 0..3
    /\ m.LocalLUN \in 0..3
    /\ m.Function \in 0..63
    /\ m.Enterprise \in 0..16777215

\* C1: the bytes SerializeTo writes with ComputeChecksums for a Message whose
\* fields are in range are accepted by DecodeFromBytes, and the decoded Message
\* equals the serialized one in every field the wire carries and in the payload.
C1_RoundTrip ==
    (FromSerialize /\ opts /\ InRange(msg0)) =>
        /\ err = "nil"
        /\ dec.RemoteAddress = msg.RemoteAddress
        /\ dec.Function = msg.Function
        /\ dec.RemoteLUN = msg.RemoteLUN
        /\ dec.Checksum1 = msg.Checksum1
        /\ dec.LocalAddress = msg.LocalAddress
        /\ dec.Sequence = msg.Sequence
        /\ dec.LocalLUN = msg.LocalLUN
        /\ dec.Command = msg.Command
        /\ (msg.Function % 2 = 1 => dec.CompletionCode = msg.CompletionCode)
        /\ (msg.Function \in {44, 45} => dec.Body = msg.Body)
        /\ (msg.Function \in {46, 47} => dec.Enterprise = msg.Enterprise)
        /\ dec.Checksum2 = msg.Checksum2
        /\ dec.Payload = payload

\* an OEM response with a non-normal completion code and a payload came back
C1_Witness ==
    /\ FromSerialize /\ opts /\ InRange(msg0) /\ err = "nil"
    /\ msg.Function = 47 /\ msg.CompletionCode = 193 /\ msg.Enterprise = 1193046
    /\ dec.Enterprise = 1193046 /\ Len(payload) = 2 /\ before = StaleMessage

\* C2: an input of fewer than 7 bytes is refused as truncated: SetTruncated is
\* called and the error is neither a checksum error nor a run-time fault.
C2_ShortIsTruncated ==
    (pc = "decoded" /\ Len(data) < 7) =>
        /\ truncated
        /\ err = "must be at least 7 bytes"

\* a 6-byte input whose first checksum is right was refused as truncated
C2_Witness ==
    /\ pc = "decoded" /\ Len(data) = 6 /\ truncated
    /\ (data[1] + data[2] + data[3]) % 256 = 0

\* C3: an accepted input with one bit inverted in bytes 0..1 or in bytes
\* 3..len-2 is refused with a checksum error.
C3_BitFlipRejected ==
    (pc = "flipped" /\ (flipAt \in 0..1 \/ flipAt \in 3..(Len(data) - 2))) =>
        err \in {"invalid checksum1", "invalid checksum2"}

\* a bit of the sequence byte was inverted and Checksum2 caught it
C3_Witness == pc = "flipped" /\ flipAt = 4 /\ err = "invalid checksum2"

\* both checksums of d are right, stated on the bytes
ValidChecksums(d) ==
    /\ (d[1] + d[2] + d[3]) % 256 = 0
    /\ SumBytes(SubSeq(d, 4, Len(d))) % 256 = 0

\* where the body code or enterprise number starts, and how many bytes it takes
ExtStart(d) == IF (d[2] \div 4) % 2 = 0 THEN 6 ELSE 7

ExtLen(d) == IF (d[2] \div 4) \in {44, 45} THEN 1 ELSE 3

\* C4: a Group or OEM input of at least 7 bytes with right checksums is decoded
\* with exactly 1 or 3 bytes taken after the command (request) or completion
\* code (response), or refused as truncated when those bytes are not there.
C4_GroupOEMHeader ==
    (pc = "decoded" /\ Len(data) >= 7 /\ ValidChecksums(data)
       /\ (data[2] \div 4) \in {44, 45, 46, 47}) =>
        IF Len(data) - 1 - ExtStart(data) >= ExtLen(data)
        THEN /\ err = "nil"
             /\ dec.Contents = SubSeq(data, 1, ExtStart(data) + ExtLen(data))
             /\ dec.Payload = SubSeq(data, ExtStart(data) + ExtLen(data) + 1, Len(data) - 1)
             /\ ((data[2] \div 4) \in {44, 45} => dec.Body = data[ExtStart(data) + 1])
             /\ ((data[2] \div 4) \in {46, 47} =>
                    dec.Enterprise = data[ExtStart(data) + 1] + 256 * data[ExtStart(data) + 2]
                                     + 65536 * data[ExtStart(data) + 3])
        ELSE /\ truncated
             /\ err \in {"data too short for body code", "data too short for OEM EN"}

\* C5: Message.NextLayerType is the opaque payload whenever the completion code
\* is not normal, whatever the Operation; with a normal code it is the table's
\* entry for the Operation, or the opaque payload when the table has none.
C5_NextLayer ==
    pc = "dispatched" =>
        /\ (dec.CompletionCode # 0 => nextLayer = "LayerTypePayload")
        /\ (dec.CompletionCode = 0 =>
               /\ \A e \in operationLayerTypes : e[1] = OperationOf(dec) => nextLayer = e[2]
               /\ ((\A e \in operationLayerTypes : e[1] # OperationOf(dec)) =>
                      nextLayer = "LayerTypePayload"))

\* a Get Channel Authentication Capabilities response that failed is opaque
C5_Witness ==
    /\ pc = "dispatched" /\ dec.CompletionCode = 193
    /\ OperationOf(dec) = OperationGetChannelAuthenticationCapabilitiesRsp
    /\ nextLayer = "LayerTypePayload"

\* C6: checksum(data) is the byte c with (sum of data + c) mod 256 = 0, for
\* every byte sequence, the empty one included.
C6_ChecksumSumsToZero ==
    ckPc = "done" => (ckOut \in 0..255 /\ (SumBytes(ckIn) + ckOut) % 256 = 0)

\* the checksum of a sequence whose sum overflows a byte was computed
C6_Witness == ckPc = "done" /\ SumBytes(ckIn) > 256 /\ ckOut # 0

\* the last decode stopped on a checksum mismatch
ChecksumFailed == pc \in {"decoded", "flipped"} /\ err \in {"invalid checksum1", "invalid checksum2"}

\* C9 as claimed: after a checksum failure the receiver holds no field of the
\* refused input, and Contents and Payload are not set.
C9_NothingParsed ==
    ChecksumFailed =>
        /\ dec.RemoteAddress = before.RemoteAddress
        /\ dec.Function = before.Function
        /\ dec.RemoteLUN = before.RemoteLUN
        /\ dec.Checksum1 = before.Checksum1
        /\ dec.LocalAddress = before.LocalAddress
        /\ dec.Sequence = before.Sequence
        /\ dec.LocalLUN = before.LocalLUN
        /\ dec.Command = before.Command
        /\ dec.Checksum2 = before.Checksum2
        /\ dec.Contents = before.Contents
        /\ dec.Payload = before.Payload

\* C9 amended: after a checksum failure Contents, Payload, CompletionCode, Body
\* and Enterprise are as before the call and no field behind the failed checksum
\* is read; the fields in front of it hold the bytes of the refused input.
C9_StopsAtFailedChecksum ==
    ChecksumFailed =>
        /\ dec.Contents = before.Contents
        /\ dec.Payload = before.Payload
        /\ dec.CompletionCode = before.CompletionCode
        /\ dec.Body = before.Body
        /\ dec.Enterprise = before.Enterprise
        /\ dec.RemoteAddress = data[1]
        /\ dec.Function = data[2] \div 4
        /\ dec.RemoteLUN = data[2] % 4
        /\ dec.Checksum1 = data[3]
        /\ (err = "invalid checksum1" =>
               /\ dec.LocalAddress = before.LocalAddress
               /\ dec.Sequence = before.Sequence
               /\ dec.LocalLUN = before.LocalLUN
               /\ dec.Command = before.Command
               /\ dec.Checksum2 = before.Checksum2)
        /\ (err = "invalid checksum2" =>
               /\ dec.LocalAddress = data[4]
               /\ dec.Sequence = data[5] \div 4
               /\ dec.LocalLUN = data[5] % 4
               /\ dec.Command = data[6]
               /\ dec.Checksum2 = data[Len(data)])

\* a used Message was handed a datagram with a wrong Checksum1 and kept its
\* command while its remote address changed
C9_Witness ==
    /\ ChecksumFailed /\ err = "invalid checksum1" /\ before = StaleMessage
    /\ dec.RemoteAddress # before.RemoteAddress /\ dec.Command = before.Command
    /\ data[6] # before.Command

\* C10: with ComputeChecksums the byte at offset 2 is the checksum of bytes 0..1
\* and the last byte is the checksum of the bytes from offset 3 to the end of
\* the payload, and both are stored in the Message; without it the caller's
\* Checksum1 and Checksum2 are written and the Message keeps them.  The output
\* is 6 + (1 if response) + (1 if Group, 3 if OEM) + payload + 1 bytes long.
C10_SerializeChecksums ==
    pc = "serialized" =>
        /\ Len(buf) = 6 + (IF msg0.Function % 2 = 1 THEN 1 ELSE 0)
                        + (IF msg0.Function \in {44, 45} THEN 1
                           ELSE IF msg0.Function \in {46, 47} THEN 3 ELSE 0)
                        + Len(payload) + 1
        /\ SubSeq(buf, Len(buf) - Len(payload), Len(buf) - 1) = payload
        /\ buf[3] = msg.Checksum1
        /\ buf[Len(buf)] = msg.Checksum2
        /\ (opts => /\ (buf[1] + buf[2] + buf[3]) % 256 = 0
                    /\ SumBytes(SubSeq(buf, 4, Len(buf))) % 256 = 0)
        /\ (~opts => /\ msg.Checksum1 = msg0.Checksum1
                     /\ msg.Checksum2 = msg0.Checksum2)

\* a Group response with a payload was serialized over wrong caller checksums
C10_Witness ==
    /\ pc = "serialized" /\ opts /\ msg0.Function = 45 /\ Len(payload) = 2
    /\ msg0.Checksum1 # msg.Checksum1 /\ msg0.Checksum2 # msg.Checksum2
    /\ Len(buf) = 11

\* C7: algorithmCipher returns an error for every algorithm other than None
\* and AES-CBC-128; for None it returns no layer and no error; for AES-CBC-128
\* the key is the first 16 bytes of K(2), and K is called with no other index.
C7_AlgorithmCipher ==
    cpc = "built" =>
        /\ (alg \notin {0, 1} => (cerr # "nil" /\ cipher = Nil /\ kCalls = <<>>))
        /\ (alg = 0 => (cerr = "nil" /\ cipher = Nil /\ kCalls = <<>>))
        /\ (alg = 1 => /\ cerr = "nil"
                       /\ cipher.kind = "AES128CBC"
                       /\ cipher.key = SubSeq(K(gen, 2), 1, 16)
                       /\ kCalls = <<2>>)

\* an AES-CBC-128 layer was keyed from material longer than the key
C7_Witness ==
    /\ cpc = "built" /\ alg = 1 /\ gen.len = 20 /\ gen.seed = 3
    /\ cipher.key = SubSeq(K(gen, 2), 1, 16) /\ cipher.key # SubSeq(K(gen, 1), 1, 16)

\* C8: the session takes its states in the order Unestablished, OpeningSession,
\* AwaitingRAKP2, AwaitingRAKP4, Active, Closed; it is Active only with RAKP
\* Message 4 received and validated; a wrong integrity value in RAKP Message 2
\* or 4 ends establishment with AuthenticationError and no Active session; and
\* an application message is accepted in the Active state only.
C8_SessionOrder ==
    /\ [](sstate = "Active" => {"OpenSessionResponse", "RAKP2", "RAKP4"} \subseteq validated)
    /\ [](wrongTag => (establishErr = "AuthenticationError" /\ sstate = "Closed"))
    /\ [][\/ Rank(sstate') = Rank(sstate) + 1
          \/ sstate' = sstate
          \/ (sstate' = "Closed" /\ establishErr' # "nil")]_vars
    /\ [][sent' # sent => (sstate = "Active" /\ sstate' = "Active")]_vars
    /\ [][sstate # "Active" => sent' = sent]_vars

\* RAKP Message 4 carried a wrong integrity value after a valid Message 2
C8_Witness ==
    /\ sstate = "Closed" /\ wrongTag /\ "RAKP2" \in validated
    /\ establishErr = "AuthenticationError" /\ serr = "SessionClosedError"

\* C11: on an input of at least 7 bytes, request or response, DecodeFromBytes
\* returns a Message or an error and never faults on an index or a slice bound,
\* a response of exactly 7 bytes included; on success the input is Contents,
\* then Payload, then the one trailing checksum byte.
C11_NoFaultFrom7Bytes ==
    (pc \in {"decoded", "flipped", "dispatched"} /\ Len(data) >= 7) =>
        /\ err # "panic"
        /\ (err = "nil" => data = dec.Contents \o dec.Payload \o <<data[Len(data)]>>)

====
